---------------------------- MODULE Spec2Model ----------------------------
(***************************************************************************)
(* A model of shoulder/models/model_biorbd.py: the ModelBiorbd wrapper     *)
(* around the biorbd rigid-body/muscle engine.                             *)
(*                                                                         *)
(* The engine is a black box.  Every quantity it computes is modelled as   *)
(* an uninterpreted term: a tuple whose first entry names the engine       *)
(* function and whose other entries are the things the value depends on    *)
(* (the muscle, the kinematic cache, the activation, ...).  Two terms are  *)
(* equal exactly when the engine was asked the same question in the same   *)
(* state.  The engine rejects a vector whose size is not nbQ.              *)
(*                                                                         *)
(* A matrix (q, qdot, emg) is a sequence of columns, a column a sequence   *)
(* of entries; an output array is a sequence of rows.  Python indices are  *)
(* kept 0-based and translated at the point of access.                     *)
(***************************************************************************)
EXTENDS Integers, Sequences, FiniteSets, TLC

VARIABLES
    use_casadi,     \* self._use_casadi
    muscleTypes,    \* engine: muscle(j).type()
    muscleStates,   \* engine: stateSet(), the internal activation of each muscle
    optLen,         \* engine: muscle(j).characteristics().optimalLength()
    cache,          \* engine: the kinematic cache written by updateMuscles
    lastSet,        \* history: the value last given to set_muscle_parameters, per muscle
    pc,             \* "idle" | "returned": the caller's position
    call,           \* the call being observed: its name, arguments and pre-state
    calls,          \* the engine and solver calls the observed call made, in order
    ret             \* what the observed call returned or raised

vars == <<use_casadi, muscleTypes, muscleStates, optLen, cache, lastSet, pc, call, calls, ret>>

---------------------------------------------------------------------------
(* Bounds of the model *)

NbQ == 1
NbMuscleTotal == 3
MaxCols == 2
MaxSamples == 2

---------------------------------------------------------------------------
(* Values *)

Min(a, b) == IF a < b THEN a ELSE b

Num(v) == <<"num", v>>
Uninit == <<"uninit">>

None == [has |-> FALSE, v |-> <<>>]
Some(x) == [has |-> TRUE, v |-> x]

\* x[:n] and x[n:] on a 1-D array
Head_(x, n) == SubSeq(x, 1, Min(n, Len(x)))
Tail_(x, n) == SubSeq(x, n + 1, Len(x))

\* m[:, i] of a matrix held as a sequence of columns (i is 0-based)
Column(m, i) == m[i + 1]
\* m.shape[1]
NCols(m) == Len(m)
\* m.shape[0]; a matrix with no column has no entry to index
NRows(m) == IF Len(m) = 0 THEN 0 ELSE Len(m[1])

\* np.ndarray((n, k)): an uninitialised n x k array
Alloc(n, k) == [r \in 1..n |-> [c \in 1..k |-> Uninit]]

n_q == NbQ
n_muscles == NbMuscleTotal

Muscles == 0..(NbMuscleTotal - 1)

MuscleTypeIds == {"IDEALIZED_ACTUATOR", "HILL", "HILL_THELEN", "HILL_DE_GROOTE"}

---------------------------------------------------------------------------
(* The execution of one call: the engine state it works on, the calls it   *)
(* has made so far, its output arrays and the exception it has raised.     *)
(*                                                                         *)
(* The exceptions, by the name the specification gives them:               *)
(*   "TypeMismatch"                 ValueError, lines 42, 76, 113, 168, 208 *)
(*   "DimensionMismatch"            ValueError, lines 174, 178, 212, 216    *)
(*   "UnsupportedControlType"       NotImplementedError, lines 183, 221     *)
(*   "UnsupportedIntegrationMethod" NotImplementedError, line 190           *)
(*   "UnsupportedMuscleType"        ValueError, line 281                    *)
(*   "Unimplemented"                NotImplementedError, line 156           *)
(*   "IndexError"                   an index outside a numpy array or list  *)
(*   "AttributeError"               a method the object does not have       *)
(*   "EngineError"                  raised by the engine                    *)
(*   "SolverError"                  ValueError raised by solve_ivp          *)

Start(c) == [cache |-> c, calls |-> <<>>, err |-> "none", out |-> <<>>]

Raise(E, e) == [E EXCEPT !.err = e]

Ev(fn, j, i, a) == [fn |-> fn, j |-> j, i |-> i, a |-> a]

Log(E, ev) == [E EXCEPT !.calls = Append(@, ev)]

\* out[k][j, i] = v on a numpy array: IndexError when j is not a row of it
SetItem(E, k, j, i, v) ==
    IF j >= Len(E.out[k]) \/ i >= Len(E.out[k][j + 1])
    THEN Raise(E, "IndexError")
    ELSE [E EXCEPT !.out[k][j + 1][i + 1] = v]

---------------------------------------------------------------------------
(* The engine *)

\* A scalar the engine returns: a float with the numeric backend, a Scalar
\* (wrapping a casadi MX) with the symbolic one.
EngineScalar(t) == IF use_casadi THEN <<"Scalar", t>> ELSE <<"float", t>>

\* updateMuscles(q[, qdot], True)
updateMuscles(E, q, qdot) ==
    LET E1 == Log(E, Ev("updateMuscles", -1, -1, <<q, qdot>>))
    IN  IF Len(q) # NbQ \/ (qdot.has /\ Len(qdot.v) # NbQ)
        THEN Raise(E1, "EngineError")
        ELSE [E1 EXCEPT !.cache = [set |-> TRUE, q |-> q, qdot |-> qdot]]

\* muscle(j).length(model, q, False): read from the cache
MuscleLength(c, j) == EngineScalar(<<"length", j, c.q>>)

\* muscle(j).velocity(model, q, qdot, False): read from the cache
MuscleVelocity(c, j) == EngineScalar(<<"velocity", j, c.q, c.qdot>>)


\* muscle(j).type()
MuscleType(j) == muscleTypes[j]

\* The force-curve object of muscle j: what its curves depend on
Mus(cls, j) == [cls |-> cls, j |-> j, optimalLength |-> optLen[j]]

\* brbd.State(target, current)
State(target, current) == <<"State", target, current>>

\* mus.FlPE(), mus.FlCE(activation), mus.FvCE(), mus.force(activation)
FlPE(c, mus) == EngineScalar(<<"FlPE", mus, c.q>>)
FlCE(c, mus, activation) == EngineScalar(<<"FlCE", mus, c.q, activation>>)
FvCE(c, mus) == EngineScalar(<<"FvCE", mus, c.q, c.qdot>>)
Force(c, mus, activation) == EngineScalar(<<"force", mus, c.q, c.qdot, activation>>)

---------------------------------------------------------------------------
(* helpers.py (not among the sources): modelled from their use and the spec *)

\* parse_muscle_index(muscle_index, n_muscles): None is every muscle, a range
\* a..b is slice(a, b)
parse_muscle_index(muscle_index, n) ==
    IF muscle_index.has
    THEN [start |-> muscle_index.v[1], stop |-> muscle_index.v[2]]
    ELSE [start |-> 0, stop |-> n]

\* concatenate(a, b)
concatenate(a, b) == a \o b

\* len(range(start, stop))
RangeLen(start, stop) == IF stop > start THEN stop - start ELSE 0

---------------------------------------------------------------------------
(* The push of one sample column, common to the three batch operations *)

\* A faulty variant of PushColumn: the push hoisted out of the loop, made for
\* the first column only
PushHoisted(E, A, i) ==
    IF i = 0
    THEN IF A.qdot.has
         THEN updateMuscles(E, Column(A.q, 0), Some(Column(A.qdot.v, 0)))
         ELSE updateMuscles(E, Column(A.q, 0), None)
    ELSE E

\* if qdot is None: updateMuscles(q[:, i], True)
\* else:            updateMuscles(q[:, i], qdot[:, i], True)
PushColumn(E, A, i) ==
    IF A.qdot.has
    THEN updateMuscles(E, Column(A.q, i), Some(Column(A.qdot.v, i)))
    ELSE updateMuscles(E, Column(A.q, i), None)

---------------------------------------------------------------------------
(* muscles_kinematics *)

\* The body of "for j in range(self._model.nbMuscleTotal())"
KinMuscle(E, A, i, j) ==
    LET E1 == Log(E, Ev("length", j, i, <<>>))
        E2 == SetItem(E1, 1, j, i, MuscleLength(E1.cache, j))
    IN  IF E2.err # "none" \/ ~A.qdot.has
        THEN E2
        ELSE LET E3 == Log(E2, Ev("velocity", j, i, <<>>))
             IN  SetItem(E3, 2, j, i, MuscleVelocity(E3.cache, j))

RECURSIVE KinMuscles(_, _, _, _)
KinMuscles(E, A, i, j) ==
    IF E.err # "none" \/ j >= NbMuscleTotal
    THEN E
    ELSE KinMuscles(KinMuscle(E, A, i, j), A, i, j + 1)

RECURSIVE KinColumns(_, _, _)
KinColumns(E, A, i) ==
    IF E.err # "none" \/ i >= NCols(A.q)
    THEN E
    ELSE LET E1 == PushColumn(E, A, i)
         IN  KinColumns(KinMuscles(E1, A, i, 0), A, i + 1)

muscles_kinematics_run(c, A) ==
    IF A.qdot.has /\ A.qdotRep # A.qRep
    THEN Raise(Start(c), "TypeMismatch")
    ELSE LET muscle_index == parse_muscle_index(A.idx, n_muscles)
             n == RangeLen(muscle_index.start, muscle_index.stop)
             E0 == [Start(c) EXCEPT !.out = <<Alloc(n, NCols(A.q)), Alloc(n, NCols(A.q))>>]
             E1 == KinColumns(E0, A, 0)
         IN  IF E1.err # "none" \/ A.qdot.has
             THEN E1
             ELSE [E1 EXCEPT !.out = <<E1.out[1]>>]

---------------------------------------------------------------------------
(* _upcast_muscle *)

\* A faulty variant of _upcast_muscle: a muscle of unknown type is taken for a
\* generic Hill muscle
UpcastFallback(E, j) ==
    LET E1 == Log(E, Ev("type", j, -1, <<>>))
        t == MuscleType(j)
    IN  [E |-> E1,
         mus |-> Mus(IF t = "IDEALIZED_ACTUATOR" THEN "IdealizedActuator"
                     ELSE IF t = "HILL_THELEN" THEN "HillThelenType"
                     ELSE IF t = "HILL_DE_GROOTE" THEN "HillDeGrooteType"
                     ELSE "HillType", j)]

\* Returns the execution (failed on a muscle of no supported type) and the
\* force-curve object.
_upcast_muscle(E, j) ==
    LET E1 == Log(E, Ev("type", j, -1, <<>>))
        t == MuscleType(j)
    IN  IF t = "IDEALIZED_ACTUATOR" THEN [E |-> E1, mus |-> Mus("IdealizedActuator", j)]
        ELSE IF t = "HILL" THEN [E |-> E1, mus |-> Mus("HillType", j)]
        ELSE IF t = "HILL_THELEN" THEN [E |-> E1, mus |-> Mus("HillThelenType", j)]
        ELSE IF t = "HILL_DE_GROOTE" THEN [E |-> E1, mus |-> Mus("HillDeGrooteType", j)]
        ELSE [E |-> Raise(E1, "UnsupportedMuscleType"), mus |-> Mus("none", j)]

\* emg[j, i] on a numpy array
EmgAt(emg, j, i) == Column(emg, i)[j + 1]

---------------------------------------------------------------------------
(* muscle_force_coefficients *)

\* The body of "for j in range(muscle_index.start, muscle_index.stop)"
CoefMuscle(E, A, i, j) ==
    LET U == _upcast_muscle(E, j)
    IN  IF U.E.err # "none" THEN U.E
        ELSE IF j >= NRows(A.emg) THEN Raise(U.E, "IndexError")
        ELSE
        LET activation == State(EmgAt(A.emg, j, i), EmgAt(A.emg, j, i))
            E1 == Log(U.E, Ev("FlPE", j, i, <<>>))
            E2 == SetItem(E1, 1, j, i, FlPE(E1.cache, U.mus))
        IN  IF E2.err # "none" THEN E2
            ELSE
            LET E3 == Log(E2, Ev("FlCE", j, i, <<activation>>))
                E4 == SetItem(E3, 2, j, i, FlCE(E3.cache, U.mus, activation))
            IN  IF E4.err # "none" \/ ~A.qdot.has THEN E4
                ELSE LET E5 == Log(E4, Ev("FvCE", j, i, <<>>))
                     IN  SetItem(E5, 3, j, i, FvCE(E5.cache, U.mus))

RECURSIVE CoefMuscles(_, _, _, _, _)
CoefMuscles(E, A, i, j, stop) ==
    IF E.err # "none" \/ j >= stop
    THEN E
    ELSE CoefMuscles(CoefMuscle(E, A, i, j), A, i, j + 1, stop)

RECURSIVE CoefColumns(_, _, _, _)
CoefColumns(E, A, i, muscle_index) ==
    IF E.err # "none" \/ i >= NCols(A.q)
    THEN E
    ELSE LET E1 == PushColumn(E, A, i)
         IN  CoefColumns(CoefMuscles(E1, A, i, muscle_index.start, muscle_index.stop),
                         A, i + 1, muscle_index)

muscle_force_coefficients_run(c, A) ==
    IF A.qRep # A.emgRep \/ (A.qdot.has /\ A.qdotRep # A.emgRep)
    THEN Raise(Start(c), "TypeMismatch")
    ELSE LET muscle_index == parse_muscle_index(A.idx, n_muscles)
             n == RangeLen(muscle_index.start, muscle_index.stop)
             k == NCols(A.q)
             E0 == [Start(c) EXCEPT !.out = <<Alloc(n, k), Alloc(n, k), Alloc(n, k)>>]
             E1 == CoefColumns(E0, A, 0, muscle_index)
         IN  IF E1.err # "none" \/ A.qdot.has
             THEN E1
             ELSE [E1 EXCEPT !.out = <<E1.out[1], E1.out[2]>>]


---------------------------------------------------------------------------
(* Conversions of engine values *)

\* x.to_mx(): a method of the symbolic backend's Scalar; a float has none
HasToMx(x) == x[1] = "Scalar"
to_mx(x) == <<"MX", x[2]>>

\* casadi.Function("force", [], [x], [], ["force"])()["force"]: the evaluation
\* of a symbolic expression to a number
Evaluate(x) == <<"DM", x[2]>>

\* v.to_mx() if self._use_casadi else v.to_array(), on a vector of the engine
Unwrap(v) == IF use_casadi THEN [k \in 1..Len(v.data) |-> <<"MX", v.data[k]>>]
             ELSE [k \in 1..Len(v.data) |-> <<"float", v.data[k]>>]

---------------------------------------------------------------------------
(* muscle_force *)

\* list(range(*muscle_index.indices(n))): the muscles of slice(start, stop)
\* that an array of n entries has
SliceIndices(muscle_index, n) ==
    LET lo == Min(muscle_index.start, n)
        hi == Min(muscle_index.stop, n)
    IN  [k \in 1..RangeLen(lo, hi) |-> lo + k - 1]

\* The body of "for j in range(n_muscles)"
ForceMuscle(E, A, i, j, muscle_list) ==
    IF j >= Len(muscle_list) THEN Raise(E, "IndexError")
    ELSE
    LET U == _upcast_muscle(E, muscle_list[j + 1])
    IN  IF U.E.err # "none" THEN U.E
        ELSE IF j >= NRows(A.emg) THEN Raise(U.E, "IndexError")
        ELSE
        LET activation == State(EmgAt(A.emg, j, i), EmgAt(A.emg, j, i))
            E1 == Log(U.E, Ev("force", muscle_list[j + 1], i, <<activation>>))
            force_tp == Force(E1.cache, U.mus, activation)
            force_mx == IF use_casadi THEN to_mx(force_tp) ELSE force_tp
            force_np == IF use_casadi /\ A.emgRep = "ndarray" THEN Evaluate(force_mx)
                        ELSE force_mx
        IN  SetItem(E1, 1, j, i, force_np)

RECURSIVE ForceMuscles(_, _, _, _, _, _)
ForceMuscles(E, A, i, j, n, muscle_list) ==
    IF E.err # "none" \/ j >= n
    THEN E
    ELSE ForceMuscles(ForceMuscle(E, A, i, j, muscle_list), A, i, j + 1, n, muscle_list)

RECURSIVE ForceColumns(_, _, _, _, _)
ForceColumns(E, A, i, n, muscle_list) ==
    IF E.err # "none" \/ i >= NCols(A.q)
    THEN E
    ELSE LET E1 == PushColumn(E, A, i)
         IN  ForceColumns(ForceMuscles(E1, A, i, 0, n, muscle_list), A, i + 1, n, muscle_list)

muscle_force_run(c, A) ==
    IF A.qRep # A.emgRep \/ ~A.qdot.has \/ A.qdotRep # A.emgRep
    THEN Raise(Start(c), "TypeMismatch")
    ELSE LET muscle_index == parse_muscle_index(A.idx, n_muscles)
             n == RangeLen(muscle_index.start, muscle_index.stop)
             muscle_list == SliceIndices(muscle_index, n)
             E0 == [Start(c) EXCEPT !.out = <<Alloc(n, NCols(A.q))>>]
         IN  ForceColumns(E0, A, 0, n, muscle_list)

---------------------------------------------------------------------------
(* set_muscle_parameters, get_muscle_parameter *)

\* A faulty variant of get_muscle_parameter: any parameter kind is answered
\* with the optimal length
GetAnyParameter(c, index, parameter_to_get) ==
    LET E1 == Log(Start(c), Ev("optimalLength", index, -1, <<>>))
        v == EngineScalar(optLen[index])
    IN  IF HasToMx(v) THEN [E1 EXCEPT !.out = <<to_mx(v)>>]
        ELSE Raise(E1, "AttributeError")

get_muscle_parameter_run(c, index, parameter_to_get) ==
    IF parameter_to_get = "OPTIMAL_LENGTH"
    THEN LET E1 == Log(Start(c), Ev("optimalLength", index, -1, <<>>))
             v == EngineScalar(optLen[index])
         IN  IF HasToMx(v) THEN [E1 EXCEPT !.out = <<to_mx(v)>>]
             ELSE Raise(E1, "AttributeError")
    ELSE Raise(Start(c), "Unimplemented")

\* The optimal lengths after set_muscle_parameters(index, optimal_length)
setOptimalLength(lengths, index, optimal_length) ==
    [lengths EXCEPT ![index] = optimal_length]

---------------------------------------------------------------------------
(* The dynamics function *)

\* ForwardDynamics(q, qdot, tau)
ForwardDynamics(E, q, qdot, tau) ==
    LET E1 == Log(E, Ev("ForwardDynamics", -1, -1, <<q, qdot, tau>>))
    IN  IF Len(q) # NbQ \/ Len(qdot) # NbQ \/ Len(tau) # NbQ
        THEN [E |-> Raise(E1, "EngineError"), v |-> [data |-> <<>>]]
        ELSE [E |-> E1, v |-> [data |-> [k \in 1..NbQ |-> <<"qddot", k, q, qdot, tau>>]]]

\* stateSet()
stateSet(E) == [E |-> Log(E, Ev("stateSet", -1, -1, <<>>)), v |-> muscleStates]

\* muscularJointTorque(states, q, qdot)
muscularJointTorque(E, states, q, qdot) ==
    LET E1 == Log(E, Ev("muscularJointTorque", -1, -1, <<states, q, qdot>>))
    IN  IF Len(q) # NbQ \/ Len(qdot) # NbQ
        THEN [E |-> Raise(E1, "EngineError"), v |-> [data |-> <<>>]]
        ELSE [E |-> E1, v |-> [data |-> [k \in 1..NbQ |-> <<"tau", k, states, q, qdot>>]]]

\* A faulty variant of _forward_dynamics: acceleration first, velocity second
ForwardDynamicsSwapped(E, t, x, tau) ==
    LET q == Head_(x, n_q)
        qdot == Tail_(x, n_q)
        F == ForwardDynamics(E, q, qdot, tau)
    IN  IF F.E.err # "none" THEN [E |-> F.E, v |-> <<>>]
        ELSE [E |-> F.E, v |-> concatenate(Unwrap(F.v), qdot)]

_forward_dynamics(E, t, x, tau) ==
    LET q == Head_(x, n_q)
        qdot == Tail_(x, n_q)
        F == ForwardDynamics(E, q, qdot, tau)
    IN  IF F.E.err # "none" THEN [E |-> F.E, v |-> <<>>]
        ELSE [E |-> F.E, v |-> concatenate(qdot, Unwrap(F.v))]

\* A variant of _forward_dynamics_muscles in which the excitation is wired in.
\* The commented-out loop, restored: states[k].setActivation(emg[k])
ForwardDynamicsMusclesWired(E, t, x, emg) ==
    LET q == Head_(x, n_q)
        qdot == Tail_(x, n_q)
        S == stateSet(E)
        states == [k \in DOMAIN S.v |-> IF k + 1 <= Len(emg) THEN emg[k + 1] ELSE S.v[k]]
        T == muscularJointTorque(S.E, states, q, qdot)
    IN  IF T.E.err # "none" THEN [E |-> T.E, v |-> <<>>]
        ELSE _forward_dynamics(T.E, t, x, Unwrap(T.v))

_forward_dynamics_muscles(E, t, x, emg) ==
    LET q == Head_(x, n_q)
        qdot == Tail_(x, n_q)
        S == stateSet(E)
        T == muscularJointTorque(S.E, S.v, q, qdot)
    IN  IF T.E.err # "none" THEN [E |-> T.E, v |-> <<>>]
        ELSE _forward_dynamics(T.E, t, x, Unwrap(T.v))

\* A partial application: func(t, x)
Partial(target, controls) == [target |-> target, controls |-> controls]

Apply(E, func, t, x) ==
    IF func.target = "_forward_dynamics_muscles"
    THEN _forward_dynamics_muscles(E, t, x, func.controls)
    ELSE _forward_dynamics(E, t, x, func.controls)


---------------------------------------------------------------------------
(* forward_dynamics *)

\* A faulty variant of forward_dynamics: the length of the control is not tested
ForwardDynamicsUnchecked(c, A) ==
    IF A.qdotRep # A.qRep \/ A.controlsRep # A.qRep
    THEN Raise(Start(c), "TypeMismatch")
    ELSE IF A.controls_type \notin {"EMG", "TORQUE"}
    THEN Raise(Start(c), "UnsupportedControlType")
    ELSE LET func == IF A.controls_type = "EMG"
                     THEN Partial("_forward_dynamics_muscles", A.controls)
                     ELSE Partial("_forward_dynamics", A.controls)
             R == Apply(Start(c), func, <<>>, concatenate(A.q, A.qdot))
         IN  IF R.E.err # "none" THEN R.E
             ELSE [R.E EXCEPT !.out = <<Head_(R.v, n_q), Tail_(R.v, n_q)>>]

forward_dynamics_run(c, A) ==
    IF A.qdotRep # A.qRep \/ A.controlsRep # A.qRep
    THEN Raise(Start(c), "TypeMismatch")
    ELSE IF A.controls_type = "EMG" /\ Len(A.controls) # n_muscles
    THEN Raise(Start(c), "DimensionMismatch")
    ELSE IF A.controls_type = "TORQUE" /\ Len(A.controls) # n_q
    THEN Raise(Start(c), "DimensionMismatch")
    ELSE IF A.controls_type \notin {"EMG", "TORQUE"}
    THEN Raise(Start(c), "UnsupportedControlType")
    ELSE LET func == IF A.controls_type = "EMG"
                     THEN Partial("_forward_dynamics_muscles", A.controls)
                     ELSE Partial("_forward_dynamics", A.controls)
             R == Apply(Start(c), func, <<>>, concatenate(A.q, A.qdot))
         IN  IF R.E.err # "none" THEN R.E
             ELSE [R.E EXCEPT !.out = <<Head_(R.v, n_q), Tail_(R.v, n_q)>>]

---------------------------------------------------------------------------
(* scipy.integrate.solve_ivp, as integrate uses it *)

\* The methods solve_ivp knows by name
METHODS == {"RK23", "RK45", "DOP853", "Radau", "BDF", "LSODA"}

\* One sample further: the solver's step from y along the vector field
Advance(y, dy) == [r \in 1..Len(y) |-> <<"y", y[r], dy[r]>>]

\* The samples after the first: each is reached from the one before it by a
\* step that evaluates func there.  R is [E, y, ys].
RECURSIVE Samples(_, _, _, _)
Samples(R, func, t_eval, k) ==
    IF R.E.err # "none" \/ k > Len(t_eval)
    THEN R
    ELSE LET D == Apply(R.E, func, t_eval[k - 1], R.y)
         IN  IF D.E.err # "none" THEN [R EXCEPT !.E = D.E]
             ELSE IF Len(D.v) # Len(R.y) THEN [R EXCEPT !.E = Raise(D.E, "SolverError")]
             ELSE LET y == Advance(R.y, D.v)
                  IN  Samples([E |-> D.E, y |-> y, ys |-> Append(R.ys, y)], func, t_eval, k + 1)

\* solve_ivp(fun=func, t_span=t_span, y0=y0, method=method, t_eval=t_eval):
\* the value is results.y, a sequence of columns, one per entry of t_eval
solve_ivp(E, func, t_span, y0, method, t_eval) ==
    LET E1 == Log(E, Ev("solve_ivp", -1, -1, <<method>>))
    IN  IF method \notin METHODS
        THEN [E |-> Raise(E1, "SolverError"), ys |-> <<>>]
        ELSE LET D == Apply(E1, func, t_span[1], y0)
             IN  IF D.E.err # "none" THEN [E |-> D.E, ys |-> <<>>]
                 ELSE IF Len(D.v) # Len(y0) THEN [E |-> Raise(D.E, "SolverError"), ys |-> <<>>]
                 ELSE LET R == Samples([E |-> D.E, y |-> y0, ys |-> <<y0>>], func, t_eval, 2)
                      IN  [E |-> R.E, ys |-> R.ys]

---------------------------------------------------------------------------
(* integrate *)

integrate_run(c, A) ==
    IF A.controlsRep # A.statesRep
    THEN Raise(Start(c), "TypeMismatch")
    ELSE IF A.controls_type = "EMG" /\ Len(A.controls) # n_muscles
    THEN Raise(Start(c), "DimensionMismatch")
    ELSE IF A.controls_type = "TORQUE" /\ Len(A.controls) # n_q
    THEN Raise(Start(c), "DimensionMismatch")
    ELSE IF A.controls_type \notin {"EMG", "TORQUE"}
    THEN Raise(Start(c), "UnsupportedControlType")
    ELSE IF A.integration_method \notin {"RK45", "RK4"}
    THEN Raise(Start(c), "UnsupportedIntegrationMethod")
    ELSE IF Len(A.t) = 0
    THEN Raise(Start(c), "IndexError")
    ELSE LET func == IF A.controls_type = "EMG"
                     THEN Partial("_forward_dynamics_muscles", A.controls)
                     ELSE Partial("_forward_dynamics", A.controls)
             method == IF A.integration_method = "RK45" THEN "RK45" ELSE "RK4"
             t_span == <<A.t[1], A.t[Len(A.t)]>>
             results == solve_ivp(Start(c), func, t_span, A.states, method, A.t)
         IN  IF results.E.err # "none" THEN results.E
             ELSE [results.E EXCEPT !.out =
                      <<[k \in 1..Len(results.ys) |-> Head_(results.ys[k], n_q)],
                        [k \in 1..Len(results.ys) |-> Tail_(results.ys[k], n_q)]>>]


---------------------------------------------------------------------------
(* The inputs the operations are called with *)

\* Every array is two-dimensional (q, qdot, emg) or one-dimensional (states,
\* controls) as its role asks: the reshaping of one-dimensional batches (lines
\* 79-82, 114-121) is not exercised.  The first argument of a call is a numeric
\* array; another argument may be a symbolic expression.

\* A vector of n entries and a matrix of rows x k entries; s shifts the values
Vec(n, s) == [r \in 1..n |-> Num((r + s) % 2)]
Mat(rows, k, s) == [i \in 1..k |-> [r \in 1..rows |-> Num((i + r + s) % 2)]]

\* muscle_index: None, or a range a..b of muscles
IndexChoices ==
    {None} \cup {Some(p) : p \in {r \in (0..(NbMuscleTotal - 1)) \X (1..NbMuscleTotal) :
                                     r[1] < r[2]}}

\* Well-formed batches: k sample columns, with or without velocities
GoodBatches ==
    {[q |-> Mat(n_q, k, 0), qdot |-> IF h THEN Some(Mat(n_q, k, 1)) ELSE None,
      emg |-> Mat(n_muscles, k, 0), idx |-> ix,
      qRep |-> "ndarray", qdotRep |-> "ndarray", emgRep |-> "ndarray"] :
        k \in 0..MaxCols, h \in BOOLEAN, ix \in IndexChoices}

\* The same with one thing wrong: a leading dimension or a representation
BadBatches ==
    {[g EXCEPT !.q = Mat(n_q + 1, NCols(g.q), 0)] : g \in GoodBatches}
    \cup {[g EXCEPT !.qdot = Some(Mat(n_q + 1, NCols(g.q), 1))] : g \in GoodBatches}
    \cup {[g EXCEPT !.emg = Mat(n_muscles - 1, NCols(g.q), 0)] : g \in GoodBatches}
    \cup {[g EXCEPT !.qRep = "MX"] : g \in GoodBatches}
    \cup {[g EXCEPT !.qdotRep = "MX"] : g \in GoodBatches}

Batches == GoodBatches \cup BadBatches

ControlsTypes == {"TORQUE", "EMG", "UNKNOWN_CONTROL"}
IntegrationMethods == {"RK45", "RK4", "UNKNOWN_METHOD"}
MuscleParameter == {"OPTIMAL_LENGTH", "UNKNOWN_PARAMETER"}
DataTypes == {"ndarray", "MX"}

\* The lengths a control vector is given: right and wrong for both kinds
ControlLengths == 1..(NbMuscleTotal + 1)

DynamicsArgs ==
    {[q |-> Vec(n_q, s1), qdot |-> Vec(n_q, 1), controls |-> Vec(len, s2),
      controls_type |-> kind, qRep |-> "ndarray", qdotRep |-> "ndarray",
      controlsRep |-> rep] :
        s1 \in {0, 1}, s2 \in {0, 1}, len \in ControlLengths,
        kind \in ControlsTypes, rep \in DataTypes}

IntegrateArgs ==
    {[t |-> [k \in 1..n |-> k - 1], states |-> Vec(len0, 0), controls |-> Vec(len, 0),
      controls_type |-> kind, integration_method |-> m,
      statesRep |-> "ndarray", controlsRep |-> rep] :
        n \in 0..MaxSamples, len0 \in {2 * n_q, 2 * n_q + 1}, len \in ControlLengths,
        kind \in ControlsTypes, m \in IntegrationMethods, rep \in DataTypes}

OptimalLengths == {Num(1), Num(2)}

\* The muscle types of the loaded model
TypeConfigs ==
    LET cycle == [j \in Muscles |->
                    IF j % 4 = 0 THEN "HILL_THELEN"
                    ELSE IF j % 4 = 1 THEN "HILL_DE_GROOTE"
                    ELSE IF j % 4 = 2 THEN "HILL"
                    ELSE "IDEALIZED_ACTUATOR"]
    IN  {cycle, [cycle EXCEPT ![NbMuscleTotal - 1] = "UNKNOWN_TYPE"]}

---------------------------------------------------------------------------
(* The state machine: a caller makes one call at a time on the model and   *)
(* looks at what it returned before making the next.                       *)

NoCall == [name |-> "none", A |-> <<>>, pre |-> <<>>]
NoRet == [err |-> "none", value |-> <<>>]

\* The state after __init__
Init ==
    /\ use_casadi \in BOOLEAN
    /\ muscleTypes \in TypeConfigs
    /\ muscleStates = [j \in Muscles |-> Num(1)]
    /\ optLen = [j \in Muscles |-> Num(1)]
    /\ lastSet = [j \in Muscles |-> None]
    /\ cache = [set |-> FALSE, q |-> <<>>, qdot |-> None]
    /\ pc = "idle"
    /\ call = NoCall
    /\ calls = <<>>
    /\ ret = NoRet

Pre == [cache |-> cache, optLen |-> optLen]

\* What a call that ran as E leaves behind
Finish(name, A, E) ==
    /\ pc' = "returned"
    /\ call' = [name |-> name, A |-> A, pre |-> Pre]
    /\ calls' = E.calls
    /\ cache' = E.cache
    /\ ret' = [err |-> E.err, value |-> IF E.err = "none" THEN E.out ELSE <<>>]

muscles_kinematics ==
    /\ pc = "idle"
    /\ \E A \in Batches : Finish("muscles_kinematics", A, muscles_kinematics_run(cache, A))
    /\ UNCHANGED <<use_casadi, muscleTypes, muscleStates, optLen, lastSet>>

muscle_force_coefficients ==
    /\ pc = "idle"
    /\ \E A \in Batches :
          Finish("muscle_force_coefficients", A, muscle_force_coefficients_run(cache, A))
    /\ UNCHANGED <<use_casadi, muscleTypes, muscleStates, optLen, lastSet>>

muscle_force ==
    /\ pc = "idle"
    /\ \E A \in Batches : Finish("muscle_force", A, muscle_force_run(cache, A))
    /\ UNCHANGED <<use_casadi, muscleTypes, muscleStates, optLen, lastSet>>

set_muscle_parameters ==
    /\ pc = "idle"
    /\ \E index \in Muscles, optimal_length \in OptimalLengths :
          /\ optLen' = setOptimalLength(optLen, index, optimal_length)
          /\ lastSet' = [lastSet EXCEPT ![index] = Some(optimal_length)]
          /\ pc' = "returned"
          /\ call' = [name |-> "set_muscle_parameters",
                      A |-> [index |-> index, optimal_length |-> optimal_length],
                      pre |-> Pre]
          /\ calls' = <<Ev("setOptimalLength", index, -1, <<optimal_length>>)>>
          /\ ret' = NoRet
    /\ UNCHANGED <<use_casadi, muscleTypes, muscleStates, cache>>

get_muscle_parameter ==
    /\ pc = "idle"
    /\ \E index \in Muscles, parameter_to_get \in MuscleParameter :
          Finish("get_muscle_parameter",
                 [index |-> index, parameter_to_get |-> parameter_to_get],
                 get_muscle_parameter_run(cache, index, parameter_to_get))
    /\ UNCHANGED <<use_casadi, muscleTypes, muscleStates, optLen, lastSet>>

forward_dynamics ==
    /\ pc = "idle"
    /\ \E A \in DynamicsArgs : Finish("forward_dynamics", A, forward_dynamics_run(cache, A))
    /\ UNCHANGED <<use_casadi, muscleTypes, muscleStates, optLen, lastSet>>

integrate ==
    /\ pc = "idle"
    /\ \E A \in IntegrateArgs : Finish("integrate", A, integrate_run(cache, A))
    /\ UNCHANGED <<use_casadi, muscleTypes, muscleStates, optLen, lastSet>>

\* The caller is done with the result
Return ==
    /\ pc = "returned"
    /\ pc' = "idle"
    /\ call' = NoCall
    /\ calls' = <<>>
    /\ ret' = NoRet
    /\ UNCHANGED <<use_casadi, muscleTypes, muscleStates, optLen, cache, lastSet>>

Next ==
    \/ muscles_kinematics
    \/ muscle_force_coefficients
    \/ muscle_force
    \/ set_muscle_parameters
    \/ get_muscle_parameter
    \/ forward_dynamics
    \/ integrate
    \/ Return

Spec == Init /\ [][Next]_vars


---------------------------------------------------------------------------
(* What the claims speak of *)

Returned(name) == pc = "returned" /\ call.name = name

BatchNames == {"muscles_kinematics", "muscle_force_coefficients", "muscle_force"}

\* The named batch operation run on cache c with arguments A
BatchRun(name, c, A) ==
    IF name = "muscles_kinematics" THEN muscles_kinematics_run(c, A)
    ELSE IF name = "muscle_force_coefficients" THEN muscle_force_coefficients_run(c, A)
    ELSE muscle_force_run(c, A)

\* The length a control vector of a kind must have
ExpectedLength(kind) == IF kind = "EMG" THEN n_muscles ELSE n_q

\* The representation of the first argument, which the others must share
Uniform(name, A) ==
    IF name = "integrate" THEN A.controlsRep = A.statesRep
    ELSE A.qdotRep = A.qRep /\ A.controlsRep = A.qRep

\* The number of pushes among the first p calls
RECURSIVE PushesUpTo(_, _)
PushesUpTo(cs, p) ==
    IF p = 0 THEN 0
    ELSE PushesUpTo(cs, p - 1) + (IF cs[p].fn = "updateMuscles" THEN 1 ELSE 0)

\* What updateMuscles is given for column i of a batch
PushOf(A, i) ==
    <<Column(A.q, i), IF A.qdot.has THEN Some(Column(A.qdot.v, i)) ELSE None>>

---------------------------------------------------------------------------
(* C1: for every batch operation and every sub-range [a, b) of the muscles, *)
(* the call succeeds (where the same call on the full range does), every    *)
(* returned array has b - a rows, and row r is row a + r of the full-range  *)
(* result.                                                                  *)
C1_SubRangeMatchesFullRange ==
    (pc = "returned" /\ call.name \in BatchNames /\ call.A \in GoodBatches /\ call.A.idx.has)
    => LET a == call.A.idx.v[1]
           b == call.A.idx.v[2]
           full == BatchRun(call.name, call.pre.cache, [call.A EXCEPT !.idx = None])
       IN  full.err = "none"
           => /\ ret.err = "none"
              /\ Len(ret.value) = Len(full.out)
              /\ \A k \in 1..Len(ret.value) :
                    /\ Len(ret.value[k]) = b - a
                    /\ \A r \in 1..(b - a) : ret.value[k][r] = full.out[k][a + r]


---------------------------------------------------------------------------
(* C2: in forward_dynamics and integrate, a control vector whose length is  *)
(* not the one of its declared kind (n_q for torque, n_muscles for muscle   *)
(* excitation) raises the dimension error before any call into the engine   *)
(* or the solver, and the kinematic cache is as it was.  (When the control  *)
(* is also of another representation than the state, the representation     *)
(* error is raised first, again before any call.)                           *)
C2_ControlLengthCheckedFirst ==
    (pc = "returned" /\ call.name \in {"forward_dynamics", "integrate"}
       /\ call.A.controls_type \in {"TORQUE", "EMG"}
       /\ Len(call.A.controls) # ExpectedLength(call.A.controls_type))
    => /\ ret.err = IF Uniform(call.name, call.A) THEN "DimensionMismatch" ELSE "TypeMismatch"
       /\ ret.value = <<>>
       /\ calls = <<>>
       /\ cache = call.pre.cache

\* forward_dynamics was given a torque of n_q + 1 entries and refused it
C2_Witness ==
    /\ Returned("forward_dynamics")
    /\ call.A.controls_type = "TORQUE"
    /\ Len(call.A.controls) = n_q + 1
    /\ ret.err = "DimensionMismatch"

---------------------------------------------------------------------------
(* C3: in the batch operations and in integrate, an input whose leading     *)
(* dimension is wrong for its role (pose or velocity rows # n_q, too few    *)
(* excitation rows for the selected muscles, an initial state of length     *)
(* # 2 n_q) is rejected before the first call into the engine, so that the  *)
(* kinematic cache is never changed by a call that fails on a dimension.    *)
WrongLeadingDimension ==
    IF call.name \in BatchNames
    THEN /\ NCols(call.A.q) > 0
         /\ \/ NRows(call.A.q) # n_q
            \/ call.A.qdot.has /\ NRows(call.A.qdot.v) # n_q
            \/ /\ call.name # "muscles_kinematics"
               /\ NRows(call.A.emg) < parse_muscle_index(call.A.idx, n_muscles).stop
    ELSE /\ call.name = "integrate"
         /\ Len(call.A.states) # 2 * n_q

C3_DimensionsCheckedBeforeEngine ==
    (pc = "returned" /\ WrongLeadingDimension)
    => /\ ret.err # "none"
       /\ calls = <<>>
       /\ cache = call.pre.cache

---------------------------------------------------------------------------
(* C4: integrate on well-typed, correctly sized inputs, N >= 1 time samples *)
(* and either method (RK45, RK4) completes without error and returns a pose *)
(* and a velocity trajectory of n_q rows and N columns each, whose first    *)
(* column is the initial state.                                             *)
C4_IntegrateCompletes ==
    (Returned("integrate")
       /\ call.A.controlsRep = call.A.statesRep
       /\ call.A.controls_type \in {"TORQUE", "EMG"}
       /\ Len(call.A.controls) = ExpectedLength(call.A.controls_type)
       /\ Len(call.A.states) = 2 * n_q
       /\ call.A.integration_method \in {"RK45", "RK4"}
       /\ Len(call.A.t) >= 1)
    => /\ ret.err = "none"
       /\ Len(ret.value) = 2
       /\ \A m \in 1..2 :
             /\ Len(ret.value[m]) = Len(call.A.t)
             /\ \A k \in 1..Len(ret.value[m]) : Len(ret.value[m][k]) = n_q
       /\ concatenate(ret.value[1][1], ret.value[2][1]) = call.A.states

---------------------------------------------------------------------------
(* C5: no silent fallback on an enumeration value.  forward_dynamics and    *)
(* integrate given a control kind other than torque or muscle excitation    *)
(* raise UnsupportedControlType; integrate given a method other than RK45   *)
(* or RK4 raises UnsupportedIntegrationMethod; in both cases neither the    *)
(* solver nor the engine is reached.  A muscle whose type is none of the    *)
(* four supported ones makes its classification raise UnsupportedMuscleType.*)
(* In every case nothing is returned.                                       *)
C5_NoSilentFallback ==
    /\ (pc = "returned" /\ call.name \in {"forward_dynamics", "integrate"}
          /\ Uniform(call.name, call.A)
          /\ call.A.controls_type \notin {"TORQUE", "EMG"})
       => (ret.err = "UnsupportedControlType" /\ ret.value = <<>> /\ calls = <<>>)
    /\ (Returned("integrate")
          /\ Uniform(call.name, call.A)
          /\ call.A.controls_type \in {"TORQUE", "EMG"}
          /\ Len(call.A.controls) = ExpectedLength(call.A.controls_type)
          /\ call.A.integration_method \notin {"RK45", "RK4"})
       => (ret.err = "UnsupportedIntegrationMethod" /\ ret.value = <<>> /\ calls = <<>>)
    /\ (pc = "returned" /\ call.name \in {"forward_dynamics", "integrate"}
          /\ (call.A.controls_type \notin {"TORQUE", "EMG"}
              \/ (call.name = "integrate"
                  /\ call.A.integration_method \notin {"RK45", "RK4"})))
       => (ret.err # "none" /\ ret.value = <<>> /\ calls = <<>>)
    /\ \A p \in 1..Len(calls) :
          (calls[p].fn = "type" /\ muscleTypes[calls[p].j] \notin MuscleTypeIds)
          => (p = Len(calls) /\ ret.err = "UnsupportedMuscleType" /\ ret.value = <<>>)

\* A force evaluation met a muscle of no supported type
C5_Witness ==
    /\ Returned("muscle_force")
    /\ ret.err = "UnsupportedMuscleType"
    /\ \E p \in 1..Len(calls) : calls[p].fn = "type"

---------------------------------------------------------------------------
(* C6: get_muscle_parameter with a parameter kind other than the optimal    *)
(* fiber length raises Unimplemented and leaves every muscle's parameters   *)
(* and the kinematic cache as they were.                                    *)
C6_GetUnknownParameter ==
    (Returned("get_muscle_parameter") /\ call.A.parameter_to_get # "OPTIMAL_LENGTH")
    => /\ ret.err = "Unimplemented"
       /\ ret.value = <<>>
       /\ calls = <<>>
       /\ optLen = call.pre.optLen
       /\ cache = call.pre.cache

C6_Witness ==
    /\ Returned("get_muscle_parameter")
    /\ call.A.parameter_to_get = "UNKNOWN_PARAMETER"
    /\ ret.err = "Unimplemented"
    /\ cache.set

---------------------------------------------------------------------------
(* C7: once the optimal fiber length of muscle i has been set to v, every   *)
(* later get_muscle_parameter(i, optimal fiber length) returns v until the  *)
(* next set on i, whatever was called in between; and a set changes the     *)
(* optimal fiber length of no other muscle.                                 *)
C7_GetReturnsLastSet ==
    /\ (Returned("get_muscle_parameter")
          /\ call.A.parameter_to_get = "OPTIMAL_LENGTH"
          /\ lastSet[call.A.index].has)
       => (ret.err = "none" /\ ret.value = <<<<"MX", lastSet[call.A.index].v>>>>)
    /\ Returned("set_muscle_parameters")
       => \A j \in Muscles \ {call.A.index} : optLen[j] = call.pre.optLen[j]


---------------------------------------------------------------------------
(* C8: in every batch operation over K sample columns the kinematic state   *)
(* is pushed (updateMuscles) once per column, in column order, with that    *)
(* column's pose (and velocity when given); every per-muscle query whose    *)
(* result goes to output column i is made after the push of column i and    *)
(* before the push of column i + 1; a call that succeeds has made exactly   *)
(* K pushes and leaves the cache holding the last column.                   *)
C8_OnePushPerColumn ==
    (pc = "returned" /\ call.name \in BatchNames)
    => /\ \A p \in 1..Len(calls) :
             LET pushed == PushesUpTo(calls, p)
             IN  /\ calls[p].fn = "updateMuscles"
                    => (pushed <= NCols(call.A.q) /\ calls[p].a = PushOf(call.A, pushed - 1))
                 /\ calls[p].i >= 0 => pushed = calls[p].i + 1
       /\ ret.err = "none"
          => /\ PushesUpTo(calls, Len(calls)) = NCols(call.A.q)
             /\ IF NCols(call.A.q) = 0
                THEN cache = call.pre.cache
                ELSE LET last == PushOf(call.A, NCols(call.A.q) - 1)
                     IN  cache = [set |-> TRUE, q |-> last[1], qdot |-> last[2]]

\* A batch of several columns went through, with queries after every push
C8_Witness ==
    /\ Returned("muscle_force_coefficients")
    /\ ret.err = "none"
    /\ NCols(call.A.q) = MaxCols
    /\ PushesUpTo(calls, Len(calls)) = MaxCols
    /\ calls[Len(calls)].i = MaxCols - 1

---------------------------------------------------------------------------
(* C9: with muscle excitation as the control, what the dynamics function    *)
(* returns depends on the state and on the model's own muscle state, not on *)
(* the excitation: on the same model and the same state, any other          *)
(* excitation vector of n_muscles entries gives the same result.            *)
C9_ExcitationIgnored ==
    /\ (Returned("forward_dynamics") /\ call.A.controls_type = "EMG"
          /\ Uniform(call.name, call.A) /\ Len(call.A.controls) = n_muscles)
       => \A s \in {0, 1} :
             LET other == forward_dynamics_run(call.pre.cache,
                                               [call.A EXCEPT !.controls = Vec(n_muscles, s)])
             IN  /\ other.err = ret.err
                 /\ ret.err = "none" => other.out = ret.value
    /\ (Returned("integrate") /\ call.A.controls_type = "EMG"
          /\ Uniform(call.name, call.A) /\ Len(call.A.controls) = n_muscles)
       => \A s \in {0, 1} :
             LET other == integrate_run(call.pre.cache,
                                        [call.A EXCEPT !.controls = Vec(n_muscles, s)])
             IN  /\ other.err = ret.err
                 /\ ret.err = "none" => other.out = ret.value

\* forward_dynamics returned a derivative for an excitation
C9_Witness ==
    /\ Returned("forward_dynamics")
    /\ call.A.controls_type = "EMG"
    /\ call.A.controls = Vec(n_muscles, 1)
    /\ ret.err = "none"
    /\ \E p \in 1..Len(calls) : calls[p].fn = "muscularJointTorque"

---------------------------------------------------------------------------
(* C10: for a state [pose, velocity] of length 2 n_q and a torque of length *)
(* n_q the dynamics function returns 2 n_q entries: the velocity, then the  *)
(* engine's ForwardDynamics(pose, velocity, torque); forward_dynamics       *)
(* returns this pair; and the muscle-excitation branch returns what the     *)
(* torque branch returns on muscularJointTorque(muscle states, pose,        *)
(* velocity).                                                               *)
C10_Derivative ==
    (Returned("forward_dynamics") /\ ret.err = "none")
    => LET q == call.A.q
           qdot == call.A.qdot
           mjt == [k \in 1..n_q |->
                     <<IF use_casadi THEN "MX" ELSE "float", <<"tau", k, muscleStates, q, qdot>>>>]
           tau == IF call.A.controls_type = "TORQUE" THEN call.A.controls ELSE mjt
       IN  /\ Len(ret.value) = 2
           /\ Len(ret.value[1]) = n_q /\ Len(ret.value[2]) = n_q
           /\ ret.value[1] = qdot
           /\ \A k \in 1..n_q : ret.value[2][k][2] = <<"qddot", k, q, qdot, tau>>
           /\ calls[Len(calls)] = Ev("ForwardDynamics", -1, -1, <<q, qdot, tau>>)
           /\ call.A.controls_type = "EMG"
              => ret.value = forward_dynamics_run(call.pre.cache,
                                 [call.A EXCEPT !.controls_type = "TORQUE", !.controls = mjt]).out

\* forward_dynamics returned the pair for a muscle excitation
C10_Witness ==
    /\ Returned("forward_dynamics")
    /\ call.A.controls_type = "EMG"
    /\ ret.err = "none"
    /\ Len(ret.value) = 2
    /\ cache.set

===========================================================================
